---------------------------- MODULE Spec2Model ----------------------------
(***************************************************************************)
(* Model of server.js: an Express application over a MongoDB client with   *)
(* three GET routes (/order-headers, /order-details/:orderNr,              *)
(* /labels/:barcodeId), a fallback handler, and the start-up sequence that *)
(* connects the client before the listener binds.                          *)
(*                                                                         *)
(* JavaScript values are records [t, n, s]: t is the type tag, n the       *)
(* number, s the string as a sequence of one-character strings.  A field   *)
(* a document does not have reads as Undefined, as a property access does. *)
(* The Labels and OrderHeaders collections are sequences (store order)     *)
(* that the upstream system changes at any time.                           *)
(***************************************************************************)
EXTENDS Integers, Sequences, FiniteSets

(***************************************************************************)
(* Bounds of the model.                                                    *)
(***************************************************************************)
MaxLabels == 2

MaxHeaders == 2

(***************************************************************************)
(* JavaScript values.                                                      *)
(***************************************************************************)
Undefined == [t |-> "undefined", n |-> 0, s |-> <<>>]

Null == [t |-> "null", n |-> 0, s |-> <<>>]

Num(k) == [t |-> "number", n |-> k, s |-> <<>>]

Str(cs) == [t |-> "string", n |-> 0, s |-> cs]

\* ToBoolean: undefined, null, 0 and "" are falsy.
Truthy(v) ==
  CASE v.t = "number" -> v.n # 0
    [] v.t = "string" -> v.s # <<>>
    [] OTHER -> FALSE

\* a || b
Or(a, b) == IF Truthy(a) THEN a ELSE b

Digits == <<"0", "1", "2", "3", "4", "5", "6", "7", "8", "9">>

IsDigit(c) == \E i \in 1..Len(Digits) : Digits[i] = c

DigitVal(c) == (CHOOSE i \in 1..Len(Digits) : Digits[i] = c) - 1

Radix == 10

RECURSIVE NatToString(_)
NatToString(k) ==
  IF k < Radix THEN <<Digits[k + 1]>>
  ELSE NatToString(k \div Radix) \o <<Digits[(k % Radix) + 1]>>

NumberToString(k) == IF k < 0 THEN <<"-">> \o NatToString(0 - k) ELSE NatToString(k)

\* ${v} inside a template literal.
TemplateString(v) ==
  CASE v.t = "string" -> v.s
    [] v.t = "number" -> NumberToString(v.n)
    [] v.t = "null" -> <<"n", "u", "l", "l">>
    [] OTHER -> <<"u", "n", "d", "e", "f", "i", "n", "e", "d">>

(***************************************************************************)
(* parseInt(string, 10): leading white space is skipped, an optional sign  *)
(* is read, then the longest prefix of decimal digits; what follows the    *)
(* digits is ignored.  NaN when there is no digit to read.                 *)
(***************************************************************************)
NaN == [nan |-> TRUE, val |-> 0]

RECURSIVE SkipWhiteSpace(_)
SkipWhiteSpace(cs) ==
  IF cs # <<>> /\ Head(cs) = " " THEN SkipWhiteSpace(Tail(cs)) ELSE cs

RECURSIVE DigitPrefix(_)
DigitPrefix(cs) ==
  IF cs # <<>> /\ IsDigit(Head(cs)) THEN <<Head(cs)>> \o DigitPrefix(Tail(cs)) ELSE <<>>

RECURSIVE DigitsValue(_, _)
DigitsValue(ds, acc) ==
  IF ds = <<>> THEN acc ELSE DigitsValue(Tail(ds), acc * Radix + DigitVal(Head(ds)))

parseInt(cs) ==
  LET trimmed == SkipWhiteSpace(cs)
      signed == trimmed # <<>> /\ Head(trimmed) \in {"-", "+"}
      body == IF signed THEN Tail(trimmed) ELSE trimmed
      ds == DigitPrefix(body)
      mag == DigitsValue(ds, 0)
  IN IF ds = <<>> THEN NaN
     ELSE [nan |-> FALSE,
           val |-> IF signed /\ Head(trimmed) = "-" THEN 0 - mag ELSE mag]

isNaN(r) == r.nan

(***************************************************************************)
(* Documents of the store.  The store is schema-less: the optional fields  *)
(* of a Label are absent, present and falsy ("" or 0), or present and      *)
(* truthy.                                                                 *)
(***************************************************************************)
OrderNrs == {7, 12}

Absent == [barcodeId |-> Undefined, PlantDate |-> Undefined,
           SmallText |-> Undefined, UOM |-> Undefined,
           ItemNumber |-> Str(<<"X", "1">>)]

Falsy == [barcodeId |-> Str(<<>>), PlantDate |-> Str(<<>>),
          SmallText |-> Str(<<>>), UOM |-> Num(0),
          ItemNumber |-> Str(<<"X", "2">>)]

Present == [barcodeId |-> Str(<<"B", "1">>), PlantDate |-> Str(<<"d">>),
            SmallText |-> Str(<<"t">>), UOM |-> Str(<<"E", "A">>),
            ItemNumber |-> Str(<<"X", "3">>)]

OptionalFields == {Absent, Falsy, Present}

LabelDoc(nr, opt) ==
  [OrderNr |-> Num(nr), ItemNumber |-> opt.ItemNumber, Quantity |-> Num(1),
   ItemDescription |-> Str(<<"i">>), PickAreaName |-> Str(<<"p">>),
   PlantDate |-> opt.PlantDate, SmallText |-> opt.SmallText, UOM |-> opt.UOM,
   barcodeId |-> opt.barcodeId]

LabelDocs == {LabelDoc(nr, opt) : nr \in OrderNrs, opt \in OptionalFields}

HeaderDoc(nr) == [OrderNr |-> Num(nr), Customer |-> Str(<<"c">>)]

HeaderDocs == {HeaderDoc(nr) : nr \in OrderNrs}

Remove(seq, i) == SubSeq(seq, 1, i - 1) \o SubSeq(seq, i + 1, Len(seq))

(***************************************************************************)
(* Store queries, as functions of a collection's content.                  *)
(***************************************************************************)
Range(seq) == {seq[i] : i \in 1..Len(seq)}

RECURSIVE Filter(_, _)
\* keep, in store order, the documents of docs whose OrderNr is in the set nrs
Filter(docs, nrs) ==
  IF docs = <<>> THEN <<>>
  ELSE (IF Head(docs).OrderNr \in nrs THEN <<Head(docs)>> ELSE <<>>)
       \o Filter(Tail(docs), nrs)

RECURSIVE Unique(_, _)
Unique(vals, seen) ==
  IF vals = <<>> THEN <<>>
  ELSE IF Head(vals) \in seen THEN Unique(Tail(vals), seen)
       ELSE <<Head(vals)>> \o Unique(Tail(vals), seen \cup {Head(vals)})

\* collection("Labels").distinct("OrderNr")
distinct(docs) == Unique([i \in 1..Len(docs) |-> docs[i].OrderNr], {})

\* findIn with findOne in place of find: only the first match is returned
findOneIn(docs, nrs) ==
  LET found == Filter(docs, Range(nrs))
  IN IF found = <<>> THEN <<>> ELSE <<found[1]>>

\* collection("OrderHeaders").find({ OrderNr: { $in: nrs } }).toArray()
findIn(docs, nrs) == Filter(docs, Range(nrs))

\* collection("Labels").find({ OrderNr: nr }).toArray()
findByOrderNr(docs, nr) == Filter(docs, {Num(nr)})

\* collection("Labels").findOne({ barcodeId }): <<>> stands for null
findOne(docs, id) ==
  LET hits == {i \in 1..Len(docs) : docs[i].barcodeId = Str(id)}
  IN IF hits = {} THEN <<>>
     ELSE <<docs[CHOOSE i \in hits : \A j \in hits : i <= j]>>

(***************************************************************************)
(* Requests.  A path is its first segment and the segments after it; an    *)
(* empty last segment is a trailing slash ("/labels/").                    *)
(***************************************************************************)
Segments ==
  {<<"7">>, <<"1", "2">>, <<"4", "2">>, <<"a", "b", "c">>,
   <<"1", "2", "a", "b", "c">>, <<"1", ".", "5">>, <<"-", "7">>, <<"B", "1">>}

Paths ==
  {[first |-> "order-headers", rest |-> r] : r \in {<<>>, << <<>> >>}}
    \cup {[first |-> f, rest |-> <<sg>>] :
            f \in {"order-details", "labels"}, sg \in Segments \cup {<<>>}}
    \cup {[first |-> "labels", rest |-> <<>>],
          [first |-> "foo", rest |-> << <<"b", "a", "r">> >>]}

Requests ==
  {[method |-> "GET", path |-> p] : p \in Paths}
    \cup {[method |-> "POST", path |-> [first |-> f, rest |-> <<>>]] :
            f \in {"order-headers", "labels"}}

NoRequest == [method |-> "", path |-> [first |-> "", rest |-> <<>>]]

ErrorDetails == {"ECONNRESET"}

(***************************************************************************)
(* Routing.  The application matches a request against the routes in the   *)
(* order of their registration; routing is not strict, so one trailing     *)
(* slash is ignored, and a route parameter takes exactly one non-empty     *)
(* segment.                                                                *)
(***************************************************************************)
Fallback == "*"

AllRoutes == <<"/order-headers", "/order-details/:orderNr", "/labels/:barcodeId", Fallback>>

StripSlash(rest) ==
  IF rest # <<>> /\ rest[Len(rest)] = <<>> THEN SubSeq(rest, 1, Len(rest) - 1) ELSE rest

Matches(route, rq) ==
  LET rest == StripSlash(rq.path.rest)
      param == Len(rest) = 1 /\ rest[1] # <<>>
  IN CASE route = "/order-headers" ->
            rq.method = "GET" /\ rq.path.first = "order-headers" /\ rest = <<>>
       [] route = "/order-details/:orderNr" ->
            rq.method = "GET" /\ rq.path.first = "order-details" /\ param
       [] route = "/labels/:barcodeId" ->
            rq.method = "GET" /\ rq.path.first = "labels" /\ param
       [] OTHER -> route = Fallback

\* the first registered route that matches; "" when none does
Dispatch(registered, rq) ==
  LET hits == {i \in 1..Len(registered) : Matches(registered[i], rq)}
  IN IF hits = {} THEN ""
     ELSE registered[CHOOSE i \in hits : \A j \in hits : i <= j]

\* req.params.orderNr, req.params.barcodeId
Param(rq) == StripSlash(rq.path.rest)[1]

(***************************************************************************)
(* Responses: res.status(s).json(b).                                       *)
(***************************************************************************)
Response(status, body) == [status |-> status, body |-> body]

ErrorBody(msg) == [error |-> msg]

\* lines 56-59 without the length test: only a missing array is rejected
NoValidOrdersNullOnly(validOrderNumbers) == FALSE

\* lines 56-59
NoValidOrders(validOrderNumbers) == Len(validOrderNumbers) = 0

NoValidOrdersResponse == Response(404, ErrorBody(<<"No valid orders found.">>))

\* lines 66-71
OrderHeadersResponse(orders) ==
  IF Len(orders) = 0
  THEN Response(404, ErrorBody(<<"No matching orders found.">>))
  ELSE Response(200, orders)

\* lines 85-87
InvalidOrderNrResponse == Response(400, ErrorBody(<<"OrderNr must be a valid number.">>))

\* lines 106-114 without the generated BarcodeID of line 113
DetailsEntryOwnBarcode(label, orderNr) ==
  [ItemNumber |-> label.ItemNumber,
   Quantity |-> label.Quantity,
   ItemDescription |-> label.ItemDescription,
   PickAreaName |-> label.PickAreaName,
   SmallText |-> Or(label.SmallText, Null),
   UOM |-> Or(label.UOM, Null),
   BarcodeID |-> label.barcodeId]

\* lines 106-114
DetailsEntry(label, orderNr) ==
  [ItemNumber |-> label.ItemNumber,
   Quantity |-> label.Quantity,
   ItemDescription |-> label.ItemDescription,
   PickAreaName |-> label.PickAreaName,
   SmallText |-> Or(label.SmallText, Null),
   UOM |-> Or(label.UOM, Null),
   BarcodeID |-> Or(label.barcodeId,
                    Str(NumberToString(orderNr) \o <<"-">> \o TemplateString(label.ItemNumber)))]

\* lines 97-115
OrderDetailsResponse(orderNr, orderDetails) ==
  IF Len(orderDetails) = 0
  THEN Response(404, ErrorBody(<<"No valid labels found for OrderNr: ">>
                               \o NumberToString(orderNr)))
  ELSE Response(200,
         [OrderNr |-> Num(orderNr),
          PlantDate |-> Or(orderDetails[1].PlantDate, Null),
          Details |-> [i \in 1..Len(orderDetails) |-> DetailsEntry(orderDetails[i], orderNr)]])

\* lines 129-131
BarcodeRequiredResponse == Response(400, ErrorBody(<<"Barcode ID is required.">>))

\* lines 141-148 with the document reshaped as the details handler does
LabelResponseReshaped(barcodeId, label) ==
  IF label = <<>>
  THEN Response(404, ErrorBody(<<"Label not found for ID: ">> \o barcodeId))
  ELSE Response(200, DetailsEntry(label[1], label[1].OrderNr.n))

\* lines 141-148
LabelResponse(barcodeId, label) ==
  IF label = <<>>
  THEN Response(404, ErrorBody(<<"Label not found for ID: ">> \o barcodeId))
  ELSE Response(200, label[1])

\* the catch blocks: what is sent and what is logged
GenericError(route) ==
  CASE route = "/order-headers" -> <<"Error fetching valid orders.">>
    [] route = "/order-details/:orderNr" -> <<"Error fetching order details.">>
    [] OTHER -> <<"Error fetching label.">>

\* a catch block that answers with error.message
CatchResponseLeaking(route, detail) == Response(500, ErrorBody(<<detail>>))

CatchResponse(route, detail) == Response(500, ErrorBody(GenericError(route)))

CatchLog(route, detail) == <<"[ERROR]", detail>>

\* lines 160-162
RouteNotFoundResponse == Response(404, ErrorBody(<<"Route not found.">>))

(***************************************************************************)
(* State.                                                                  *)
(*   uri, main, connect, listening, exitCode, routes: the process          *)
(*   labels, headers: the two collections of the Tayco database            *)
(*   pc, req, orderNr, validOrderNumbers, queries: the request in flight   *)
(*     and the handler's locals that live across an await                  *)
(*   out: the exchange completed by the step just taken (<<>> otherwise):  *)
(*     the request, the route that took it, the store queries it issued,   *)
(*     the responses sent, the error caught and what was logged.  It is    *)
(*     an observation of that one step: the next step is Close, so the     *)
(*     store seen beside it is the store the last query read.              *)
(***************************************************************************)
VARIABLES uri, main, connect, listening, exitCode, routes,
          labels, headers,
          pc, req, orderNr, validOrderNumbers, queries,
          out

process == <<uri, main, connect, listening, exitCode, routes>>

store == <<labels, headers>>

handler == <<pc, req, orderNr, validOrderNumbers, queries>>

vars == <<uri, main, connect, listening, exitCode, routes, labels, headers,
          pc, req, orderNr, validOrderNumbers, queries, out>>

Exchange(rq, route, qs, response) ==
  [rq |-> rq, route |-> route, queries |-> qs, sent |-> <<response>>,
   thrown |-> <<>>, logged |-> <<>>,
   parsed |-> NaN, validOrderNumbers |-> <<>>, orders |-> <<>>,
   orderDetails |-> <<>>, label |-> <<>>]

Idle ==
  /\ pc' = "idle"
  /\ req' = NoRequest
  /\ orderNr' = 0
  /\ validOrderNumbers' = <<>>
  /\ queries' = <<>>

Init ==
  /\ uri \in {Undefined, Str(<<>>), Str(<<"m">>)}
  /\ main = "start"
  /\ connect = "none"
  /\ listening = FALSE
  /\ exitCode = 0
  /\ routes = <<>>
  /\ labels = <<>>
  /\ headers = <<>>
  /\ pc = "idle"
  /\ req = NoRequest
  /\ orderNr = 0
  /\ validOrderNumbers = <<>>
  /\ queries = <<>>
  /\ out = <<>>

(***************************************************************************)
(* Start-up.  The module's code runs to completion before any promise      *)
(* continuation does: startServer() runs up to its await, the routes are   *)
(* registered, and only then does the connection attempt settle.           *)
(***************************************************************************)
\* lines 10-14
CheckUri ==
  /\ main = "start"
  /\ IF ~Truthy(uri)
     THEN main' = "exited" /\ exitCode' = 1
     ELSE main' = "startServer" /\ exitCode' = exitCode
  /\ UNCHANGED <<uri, connect, listening, routes, store, handler, out>>

\* startServer with app.listen called without awaiting client.connect()
startServerListenFirst ==
  /\ main = "startServer"
  /\ connect' = "pending"
  /\ listening' = TRUE
  /\ main' = "routes"
  /\ UNCHANGED <<uri, exitCode, routes, store, handler, out>>

\* line 43 and lines 28-30: the call, up to the await
startServer ==
  /\ main = "startServer"
  /\ connect' = "pending"
  /\ main' = "routes"
  /\ UNCHANGED <<uri, listening, exitCode, routes, store, handler, out>>

\* lines 48, 81, 125, 160
RegisterRoutes ==
  /\ main = "routes"
  /\ routes' = AllRoutes
  /\ main' = "loaded"
  /\ UNCHANGED <<uri, connect, listening, exitCode, store, handler, out>>

\* lines 30-36: the connection is established, the listener binds
ConnectResolved ==
  /\ main = "loaded"
  /\ connect = "pending"
  /\ connect' = "connected"
  /\ listening' = TRUE
  /\ UNCHANGED <<uri, main, exitCode, routes, store, handler, out>>

\* lines 37-40
ConnectRejected ==
  /\ main = "loaded"
  /\ connect = "pending"
  /\ connect' = "failed"
  /\ main' = "exited"
  /\ exitCode' = 1
  /\ UNCHANGED <<uri, listening, routes, store, handler, out>>

(***************************************************************************)
(* The upstream system owns the store and changes it at any time.          *)
(***************************************************************************)
InsertLabel(d) ==
  /\ out = <<>>
  /\ Len(labels) < MaxLabels
  /\ labels' = Append(labels, d)
  /\ out' = <<>>
  /\ UNCHANGED <<process, headers, handler>>

DeleteLabel(i) ==
  /\ out = <<>>
  /\ i \in 1..Len(labels)
  /\ labels' = Remove(labels, i)
  /\ out' = <<>>
  /\ UNCHANGED <<process, headers, handler>>

InsertHeader(h) ==
  /\ out = <<>>
  /\ Len(headers) < MaxHeaders
  /\ headers' = Append(headers, h)
  /\ out' = <<>>
  /\ UNCHANGED <<process, labels, handler>>

DeleteHeader(i) ==
  /\ out = <<>>
  /\ i \in 1..Len(headers)
  /\ headers' = Remove(headers, i)
  /\ out' = <<>>
  /\ UNCHANGED <<process, labels, handler>>

(***************************************************************************)
(* A request arrives at the listener and is dispatched; the handler runs   *)
(* to its first await or to its response.                                  *)
(***************************************************************************)
Await(rq, at, nr, query) ==
  /\ pc' = at
  /\ req' = rq
  /\ orderNr' = nr
  /\ validOrderNumbers' = <<>>
  /\ queries' = <<query>>
  /\ out' = <<>>

Receive(rq) ==
  /\ out = <<>>
  /\ listening
  /\ main # "exited"
  /\ pc = "idle"
  /\ LET route == Dispatch(routes, rq)
     IN CASE route = "/order-headers" ->
               Await(rq, "distinct", 0, "Labels.distinct")
          [] route = "/order-details/:orderNr" ->
               LET parsed == parseInt(Param(rq))
               IN IF isNaN(parsed)
                  THEN /\ out' = <<Exchange(rq, route, <<>>, InvalidOrderNrResponse)>>
                       /\ Idle
                  ELSE Await(rq, "find", parsed.val, "Labels.find")
          [] route = "/labels/:barcodeId" ->
               IF Param(rq) = <<>>
               THEN /\ out' = <<Exchange(rq, route, <<>>, BarcodeRequiredResponse)>>
                    /\ Idle
               ELSE Await(rq, "findOne", 0, "Labels.findOne")
          [] OTHER ->
               /\ out' = <<Exchange(rq, route, <<>>, RouteNotFoundResponse)>>
               /\ Idle
  /\ UNCHANGED <<process, store>>

\* lines 52-64: the distinct query returns
DistinctReturns ==
  /\ out = <<>>
  /\ pc = "distinct"
  /\ LET numbers == distinct(labels)
     IN IF NoValidOrders(numbers)
        THEN /\ out' = <<Exchange(req, "/order-headers", queries, NoValidOrdersResponse)>>
             /\ Idle
        ELSE /\ pc' = "in"
             /\ validOrderNumbers' = numbers
             /\ queries' = Append(queries, "OrderHeaders.find")
             /\ out' = <<>>
             /\ UNCHANGED <<req, orderNr>>
  /\ UNCHANGED <<process, store>>

\* lines 61-71: the $in query returns
FindInReturns ==
  /\ out = <<>>
  /\ pc = "in"
  /\ LET orders == findIn(headers, validOrderNumbers)
     IN out' = <<[Exchange(req, "/order-headers", queries, OrderHeadersResponse(orders))
                    EXCEPT !.validOrderNumbers = validOrderNumbers, !.orders = orders]>>
  /\ Idle
  /\ UNCHANGED <<process, store>>

\* lines 92-115
FindReturns ==
  /\ out = <<>>
  /\ pc = "find"
  /\ LET orderDetails == findByOrderNr(labels, orderNr)
     IN out' = <<[Exchange(req, "/order-details/:orderNr", queries,
                           OrderDetailsResponse(orderNr, orderDetails))
                    EXCEPT !.parsed = [nan |-> FALSE, val |-> orderNr],
                           !.orderDetails = orderDetails]>>
  /\ Idle
  /\ UNCHANGED <<process, store>>

\* lines 139-148
FindOneReturns ==
  /\ out = <<>>
  /\ pc = "findOne"
  /\ LET barcodeId == Param(req)
         label == findOne(labels, barcodeId)
     IN out' = <<[Exchange(req, "/labels/:barcodeId", queries, LabelResponse(barcodeId, label))
                    EXCEPT !.label = label]>>
  /\ Idle
  /\ UNCHANGED <<process, store>>

\* the response has been written and the exchange is over
Close ==
  /\ out # <<>>
  /\ out' = <<>>
  /\ UNCHANGED <<process, store, handler>>

RouteOf(at) ==
  CASE at \in {"distinct", "in"} -> "/order-headers"
    [] at = "find" -> "/order-details/:orderNr"
    [] OTHER -> "/labels/:barcodeId"

\* the awaited query rejects: the handler's catch block runs
QueryRejects(detail) ==
  /\ out = <<>>
  /\ pc # "idle"
  /\ LET route == RouteOf(pc)
     IN out' = <<[Exchange(req, route, queries, CatchResponse(route, detail))
                    EXCEPT !.thrown = <<detail>>,
                           !.logged = CatchLog(route, detail),
                           !.validOrderNumbers = validOrderNumbers]>>
  /\ Idle
  /\ UNCHANGED <<process, store>>

Next ==
  \/ CheckUri
  \/ startServer
  \/ RegisterRoutes
  \/ ConnectResolved
  \/ ConnectRejected
  \/ \E d \in LabelDocs : InsertLabel(d)
  \/ \E i \in 1..MaxLabels + 1 : DeleteLabel(i)
  \/ \E h \in HeaderDocs : InsertHeader(h)
  \/ \E i \in 1..MaxHeaders + 1 : DeleteHeader(i)
  \/ \E rq \in Requests : Receive(rq)
  \/ DistinctReturns
  \/ FindInReturns
  \/ FindReturns
  \/ FindOneReturns
  \/ \E detail \in ErrorDetails : QueryRejects(detail)
  \/ Close

Spec == Init /\ [][Next]_vars

(***************************************************************************)
(* The exchange just completed and its single response.                    *)
(***************************************************************************)
Completed(route) == out # <<>> /\ out[1].route = route /\ Len(out[1].sent) = 1

Returned(route) == Completed(route) /\ out[1].thrown = <<>>

Status == out[1].sent[1].status

Body == out[1].sent[1].body

LabelsOf(nr) == {i \in 1..Len(labels) : labels[i].OrderNr = nr}

HeadersOf(nr) == {i \in 1..Len(headers) : headers[i].OrderNr = nr}

Occurrences(seq, x) == Cardinality({i \in 1..Len(seq) : seq[i] = x})

\* a decimal integer literal: an optional sign, then digits and nothing else
IsIntegerLiteral(cs) ==
  LET body == IF cs # <<>> /\ cs[1] \in {"-", "+"} THEN Tail(cs) ELSE cs
  IN body # <<>> /\ \A i \in 1..Len(body) : IsDigit(body[i])

HasField(v) == v # Undefined

(***************************************************************************)
(* C1: a header whose OrderNr appears in no Label document is never in the *)
(* array of a 200 response of GET /order-headers, also when the Labels     *)
(* collection changes between the distinct query and the $in query.  The   *)
(* store beside the response is the store the $in query read.              *)
(***************************************************************************)
C1_OrphanHeaderNeverListed ==
  (Returned("/order-headers") /\ Status = 200)
    => \A i \in 1..Len(Body) : LabelsOf(Body[i].OrderNr) # {}

(***************************************************************************)
(* C2: when the queries of GET /order-headers return, every OrderNr that   *)
(* the Labels collection holds when the distinct query reads it is in the  *)
(* set the handler keeps, and every OrderNr of that set that has exactly   *)
(* one OrderHeader document when the $in query reads gets a 200 response   *)
(* whose array holds that header exactly once, however many labels         *)
(* reference it.                                                           *)
(***************************************************************************)
C2_DistinctStep ==
  (pc = "distinct" /\ pc' = "in")
    => \A i \in 1..Len(labels) : labels[i].OrderNr \in Range(validOrderNumbers')

C2_FindStep ==
  (pc = "in" /\ out' # <<>> /\ out'[1].thrown = <<>>)
    => \A nr \in Range(validOrderNumbers) :
         Cardinality(HeadersOf(nr)) = 1
           => /\ out'[1].sent[1].status = 200
              /\ \A h \in HeadersOf(nr) :
                   Occurrences(out'[1].sent[1].body, headers[h]) = 1

C2_ValidHeaderListedOnce == [][C2_DistinctStep /\ C2_FindStep]_vars

C2_Witness ==
  /\ Returned("/order-headers")
  /\ Status = 200
  /\ \E nr \in Range(out[1].validOrderNumbers) :
       /\ Cardinality(LabelsOf(nr)) = 2
       /\ Cardinality(HeadersOf(nr)) = 1
       /\ \A h \in HeadersOf(nr) : Occurrences(Body, headers[h]) = 1

(***************************************************************************)
(* C3: GET /order-details/:orderNr with a segment that is not an integer   *)
(* ("abc", "12abc", "1.5") is answered 400 and issues no store query.      *)
(***************************************************************************)
C3_NonIntegerSegmentIs400 ==
  (Completed("/order-details/:orderNr") /\ ~IsIntegerLiteral(Param(out[1].rq)))
    => Status = 400 /\ out[1].queries = <<>>

(***************************************************************************)
(* C4: GET /labels/ (empty or missing identifier) is answered 400          *)
(* "Barcode ID is required." by the label lookup handler, with no store    *)
(* query.                                                                  *)
(***************************************************************************)
C4_EmptyBarcodeIs400 ==
  (/\ out # <<>>
   /\ out[1].rq.method = "GET"
   /\ out[1].rq.path.first = "labels"
   /\ StripSlash(out[1].rq.path.rest) = <<>>)
    => /\ out[1].route = "/labels/:barcodeId"
       /\ out[1].sent = <<BarcodeRequiredResponse>>
       /\ out[1].queries = <<>>

(***************************************************************************)
(* C5 as stated: in a 200 response of GET /order-details/:orderNr every    *)
(* entry's BarcodeID is the label's own barcodeId when the label has the   *)
(* field, else "<OrderNr>-<ItemNumber>"; it is never null or absent.       *)
(***************************************************************************)
Generated(nr, label) == Str(NumberToString(nr) \o <<"-">> \o TemplateString(label.ItemNumber))

C5_BarcodeIDOwnWhenPresent ==
  (Returned("/order-details/:orderNr") /\ Status = 200)
    => \A i \in 1..Len(out[1].orderDetails) :
         LET label == out[1].orderDetails[i]
             entry == Body.Details[i]
         IN /\ entry.BarcodeID =
                 IF HasField(label.barcodeId) THEN label.barcodeId
                 ELSE Generated(out[1].parsed.val, label)
            /\ entry.BarcodeID \notin {Null, Undefined}

(***************************************************************************)
(* C5 amended: every entry's BarcodeID is the label's own barcodeId when   *)
(* that field is a non-empty string, and "<OrderNr>-<ItemNumber>" when the *)
(* field is absent or empty; it is never null, absent or empty.            *)
(***************************************************************************)
C5_BarcodeIDOwnWhenNonEmpty ==
  (Returned("/order-details/:orderNr") /\ Status = 200)
    => /\ Len(Body.Details) = Len(out[1].orderDetails)
       /\ \A i \in 1..Len(out[1].orderDetails) :
            LET label == out[1].orderDetails[i]
                entry == Body.Details[i]
            IN /\ entry.BarcodeID =
                    IF label.barcodeId.t = "string" /\ Len(label.barcodeId.s) > 0
                    THEN label.barcodeId
                    ELSE Generated(out[1].parsed.val, label)
               /\ entry.BarcodeID.t = "string"
               /\ Len(entry.BarcodeID.s) > 0

\* the label {OrderNr: 7, ItemNumber: "X1"} without barcodeId yields "7-X1"
C5_Witness ==
  /\ Returned("/order-details/:orderNr")
  /\ Status = 200
  /\ \E i \in 1..Len(Body.Details) :
       /\ out[1].orderDetails[i].barcodeId = Undefined
       /\ Body.Details[i].BarcodeID = Str(<<"7", "-", "X", "1">>)

(***************************************************************************)
(* C6: when the lookup of GET /labels/:barcodeId (non-empty identifier)    *)
(* returns: if a Label of the store has that barcodeId the response is 200 *)
(* and its body is that stored document, every field as stored (the first  *)
(* in store order, should several share the identifier); if none has, the  *)
(* response is 404 and its message names the identifier.                   *)
(***************************************************************************)
C6_LabelLookup ==
  Returned("/labels/:barcodeId")
    => LET id == Param(out[1].rq)
           hits == {i \in 1..Len(labels) : labels[i].barcodeId = Str(id)}
       IN /\ Len(id) > 0
          /\ out[1].queries = <<"Labels.findOne">>
          /\ IF hits # {}
             THEN /\ Status = 200
                  /\ \E i \in hits : Body = labels[i] /\ \A j \in hits : i <= j
             ELSE /\ Status = 404
                  /\ Body = [error |-> <<"Label not found for ID: ">> \o id]

C6_Witness ==
  /\ Returned("/labels/:barcodeId")
  /\ Param(out[1].rq) = <<"B", "1">>
  /\ Status = 200
  /\ \E i \in 1..Len(labels) : Body = labels[i] /\ Body.barcodeId = Str(<<"B", "1">>)

(***************************************************************************)
(* C7: in each handler, when a store query raises, the request gets        *)
(* exactly one response, 500, whose body is the handler's fixed message;   *)
(* the error's detail is not in the body (it is in the log) and no 200 or  *)
(* 404 is sent.                                                            *)
(***************************************************************************)
FixedMessage ==
  [r \in {"/order-headers", "/order-details/:orderNr", "/labels/:barcodeId"} |->
     CASE r = "/order-headers" -> "Error fetching valid orders."
       [] r = "/order-details/:orderNr" -> "Error fetching order details."
       [] OTHER -> "Error fetching label."]

C7_StoreErrorIs500 ==
  (out # <<>> /\ out[1].thrown # <<>>)
    => /\ Len(out[1].sent) = 1
       /\ Status = 500
       /\ out[1].route \in DOMAIN FixedMessage
       /\ Body = [error |-> <<FixedMessage[out[1].route]>>]
       /\ \A i \in 1..Len(Body.error) : Body.error[i] \notin Range(out[1].thrown)
       /\ \E i \in 1..Len(out[1].logged) : out[1].logged[i] \in Range(out[1].thrown)

\* the second query of /order-headers raised
C7_Witness ==
  /\ Completed("/order-headers")
  /\ out[1].thrown # <<>>
  /\ out[1].queries = <<"Labels.distinct", "OrderHeaders.find">>
  /\ Status = 500

(***************************************************************************)
(* C8: the listener is bound only once the connection is established and   *)
(* all three routes and the fallback are registered; with the connection   *)
(* string missing, or the connection attempt failed, the process has       *)
(* exited nonzero and the listener is not bound; a request is handled only *)
(* by a listening, connected process.                                      *)
(***************************************************************************)
C8_StartupOrdering ==
  /\ listening => connect = "connected" /\ routes = AllRoutes
  /\ (~Truthy(uri) /\ main # "start") => main = "exited"
  /\ connect = "failed" => main = "exited"
  /\ main = "exited" => exitCode # 0 /\ ~listening /\ pc = "idle" /\ out = <<>>
  /\ (pc # "idle" \/ out # <<>>) => listening /\ connect = "connected"

C8_Witness ==
  /\ listening
  /\ connect = "connected"
  /\ out # <<>>
  /\ out[1].route = Fallback

(***************************************************************************)
(* C9: in a 200 response of GET /order-details/:orderNr, OrderNr is the    *)
(* parsed integer; Details has one entry per Label of that OrderNr, in     *)
(* store order; PlantDate is the first such label's, null only if that     *)
(* label has none; SmallText and UOM are the label's stored values when    *)
(* present (also "" and 0) and null only when absent.                      *)
(***************************************************************************)
NullIfAbsent(v) == IF HasField(v) THEN v ELSE Null

C9_DetailsAsStored ==
  (Returned("/order-details/:orderNr") /\ Status = 200)
    => LET nr == out[1].parsed.val
           own == findByOrderNr(labels, nr)
       IN /\ Body.OrderNr = Num(nr)
          /\ Len(Body.Details) = Cardinality(LabelsOf(Num(nr)))
          /\ Len(Body.Details) = Len(own)
          /\ Body.PlantDate = NullIfAbsent(own[1].PlantDate)
          /\ \A i \in 1..Len(own) :
               /\ Body.Details[i].ItemNumber = own[i].ItemNumber
               /\ Body.Details[i].SmallText = NullIfAbsent(own[i].SmallText)
               /\ Body.Details[i].UOM = NullIfAbsent(own[i].UOM)

(***************************************************************************)
(* C10: GET /order-headers never answers 200 with an empty array.  When    *)
(* the distinct query yields nothing the response is 404 "No valid orders  *)
(* found." and the OrderHeaders query is not issued; when it yields a      *)
(* non-empty set and the OrderHeaders query yields no document the         *)
(* response is 404 "No matching orders found.".                            *)
(***************************************************************************)
C10_NoEmpty200 ==
  /\ pc = "in" => Len(validOrderNumbers) > 0
  /\ Returned("/order-headers")
       => /\ Status = 200 => Len(Body) > 0
          /\ Len(out[1].queries) = 1
               => /\ out[1].queries = <<"Labels.distinct">>
                  /\ labels = <<>>
                  /\ out[1].sent = <<Response(404, [error |-> <<"No valid orders found.">>])>>
          /\ Len(out[1].queries) = 2
               => /\ Len(out[1].validOrderNumbers) > 0
                  /\ (\A nr \in Range(out[1].validOrderNumbers) : HeadersOf(nr) = {})
                       => out[1].sent =
                            <<Response(404, [error |-> <<"No matching orders found.">>])>>

C10_Witness ==
  /\ Returned("/order-headers")
  /\ Len(out[1].validOrderNumbers) > 0
  /\ out[1].sent = <<Response(404, [error |-> <<"No matching orders found.">>])>>

============================================================================
